---------------------------- MODULE Spec2Model ----------------------------
(***************************************************************************)
(* DuReader pre-processing (src/dureader_preprocess.py): the token-overlap *)
(* metric, the paragraph selector, the fake-answer miner and the process-  *)
(* pool orchestrator, with the orchestrator of src/dureader_segment.py.    *)
(*                                                                         *)
(* Python values: a list is a sequence, a str is a string, a dict is a     *)
(* record.  Python indices are 0-based and are kept 0-based in every value *)
(* the program stores (most_related_para, answer_docs, answer_spans); the  *)
(* sequences themselves are indexed from 1.                                *)
(*                                                                         *)
(* Floats: the scores are quotients of small integers.  They are kept as   *)
(* exact fractions <<num, den>> in lowest terms and the arithmetic of      *)
(* lines 46-48 is carried out on them operation by operation.  For the     *)
(* token counts within the bounds below, IEEE binary64 evaluation of those *)
(* lines orders and identifies the scores exactly as the fractions do.     *)
(***************************************************************************)
EXTENDS Integers, Sequences, FiniteSets, TLC

VARIABLES
    prediction, ground_truth, prf,      \* precision_recall_f1: arguments, result
    doc, question, best_match,          \* find_best_question_match: arguments, result
    sample, ffa,                        \* find_fake_answer: the sample dict, call status
    script,         \* which main runs: "preprocess" or "segment"
    args,           \* the parsed command line
    input,          \* args.input: the lines of the input file
    pc,             \* where main is
    index,          \* the line being read: enumerate's 0-based index
    samples,        \* preprocess: the parsed samples; segment: the lines read
    fut_list,       \* the futures in submission order (segment: the keys of futs_map)
    ac_finished,    \* as_completed: futures already finished when the drain began
    ac_waiter,      \* as_completed: waiter.finished_futures, in completion order
    output,         \* the records printed to args.output
    stderr          \* the messages written to sys.stderr

-----------------------------------------------------------------------------
(* Bounds of the checked inputs *)

\* longest token list handed to precision_recall_f1 on its own
MaxLen == 3
\* size of a selector input: paragraphs + tokens in them + question tokens
MaxSelSize == 5
\* size of a sample: documents + paragraphs + answers + tokens in all of them
MaxSize == 7
\* size of a sample whose paragraphs are made long (reach the window cap)
MaxLongSize == 6
\* lines of an input file of dureader_preprocess
MaxLines == 3
\* lines of an input file of dureader_segment
MaxSegLines == 2
\* largest --max-workers
MaxWorkers == 2
\* the input files of the runs checked for termination have at most this
\* many lines
MaxFairLines == 2
\* of a window longer than this, the spans compared with the recorded score
\* are those that start in its last MaxTail tokens
MaxTail == 8

\* plain tokens (no whitespace inside)
Tokens == {"a", "b"}
\* a token that is nothing but whitespace, and a token with whitespace inside
\* (CoreNLP keeps "555 1234" as one token): str.split() makes no word of the
\* first and two words of the second
BlankToken == " "
TwoWordToken == "a b"
\* the tokens of the selector's inputs
SelTokens == Tokens \cup {"x", BlankToken, TwoWordToken}
\* the token that fills the front of a long paragraph
PadToken == "z"

-----------------------------------------------------------------------------
(* Small helpers *)

Min(a, b) == IF a < b THEN a ELSE b

RECURSIVE Gcd(_, _)
Gcd(a, b) == IF b = 0 THEN a ELSE Gcd(b, a % b)

RECURSIVE SumOver(_, _)
\* sum(f[x] for x in S)
SumOver(S, f) ==
    IF S = {} THEN 0
    ELSE LET x == CHOOSE y \in S : TRUE IN f[x] + SumOver(S \ {x}, f)

Range(s) == {s[i] : i \in DOMAIN s}

\* All token lists of exactly n tokens over T
RECURSIVE TokSeqs(_, _)
TokSeqs(T, n) ==
    IF n = 0 THEN {<<>>}
    ELSE {Append(s, t) : s \in TokSeqs(T, n - 1), t \in T}

TokSeqsUpTo(T, n) == UNION {TokSeqs(T, k) : k \in 0..n}

-----------------------------------------------------------------------------
(* Numbers.  A score is <<num, den>> with den > 0, in lowest terms.  A      *)
(* result with den = 0 stands for an exception raised while computing it.   *)

Frac(n, d) == LET g == Gcd(n, d) IN <<n \div g, d \div g>>
Zero == <<0, 1>>
One == <<1, 1>>
ZeroDivisionError == <<0, 0>>
ValueError == <<1, 0>>
IsRaised(x) == x[2] = 0

\* int / int and float / float
IntDiv(n, d) == IF d = 0 THEN ZeroDivisionError ELSE Frac(n, d)
FMul(x, y) == IF IsRaised(x) THEN x ELSE IF IsRaised(y) THEN y
              ELSE Frac(x[1] * y[1], x[2] * y[2])
FAdd(x, y) == IF IsRaised(x) THEN x ELSE IF IsRaised(y) THEN y
              ELSE Frac(x[1] * y[2] + y[1] * x[2], x[2] * y[2])
FDiv(x, y) == IF IsRaised(x) THEN x ELSE IF IsRaised(y) THEN y
              ELSE IF y[1] = 0 THEN ZeroDivisionError
              ELSE Frac(x[1] * y[2], x[2] * y[1])
\* x > y, x == y (an exception is never compared: the callers have left)
FGt(x, y) == x[1] * y[2] > y[1] * x[2]
FEq(x, y) == x[1] * y[2] = y[1] * x[2]

\* the larger of two scores, the first one on a tie (as max() keeps it)
FMax2(x, y) ==
    IF IsRaised(x) THEN x ELSE IF IsRaised(y) THEN y
    ELSE IF FGt(y, x) THEN y ELSE x

RECURSIVE FMaxFrom(_, _, _)
FMaxFrom(m, scores, i) ==
    IF i > Len(scores) THEN m ELSE FMaxFrom(FMax2(m, scores[i]), scores, i + 1)

\* max(scores); max([]) raises ValueError
FMax(scores) ==
    IF Len(scores) = 0 THEN ValueError ELSE FMaxFrom(scores[1], scores, 2)

-----------------------------------------------------------------------------
(* Metric engine *)

\* A Python object handed to the metric: a list of tokens or a str
PyList(v) == [isList |-> TRUE, v |-> v]
PyStr(v) == [isList |-> FALSE, v |-> v]

\* str.split(): the whitespace-separated words of a token
split(s) ==
    IF s = BlankToken THEN <<>>
    ELSE IF s = TwoWordToken THEN <<"a", "b">>
    ELSE <<s>>

\* lines 34-41: a list is taken as it is, a str is split
tokens_of(x) == IF x.isList THEN x.v ELSE split(x.v)

\* Counter(tokens)[t]
Count(tokens, t) == Cardinality({i \in DOMAIN tokens : tokens[i] = t})

\* sum((Counter(a) & Counter(b)).values())
NumSame(a, b) ==
    LET common == [t \in Range(a) \cap Range(b) |-> Min(Count(a, t), Count(b, t))]
    IN SumOver(DOMAIN common, common)

\* both ratios taken over the length of the prediction
prf_ratios_one_length(num_same, prediction_tokens, ground_truth_tokens) ==
    LET p == IntDiv(num_same, Len(prediction_tokens))
        f1 == FDiv(FMul(FMul(<<2, 1>>, p), p), FAdd(p, p))
    IN <<p, p, f1>>

\* The arithmetic of lines 46-48
prf_ratios(num_same, prediction_tokens, ground_truth_tokens) ==
    LET p == IntDiv(num_same, Len(prediction_tokens))
        r == IntDiv(num_same, Len(ground_truth_tokens))
        f1 == FDiv(FMul(FMul(<<2, 1>>, p), r), FAdd(p, r))
    IN <<p, r, f1>>

\* lines 46-49 without the test of line 44
prf_of_counts_unguarded(num_same, prediction_tokens, ground_truth_tokens) ==
    prf_ratios(num_same, prediction_tokens, ground_truth_tokens)

\* lines 44-49
prf_of_counts(num_same, prediction_tokens, ground_truth_tokens) ==
    IF num_same = 0 THEN <<Zero, Zero, Zero>>
    ELSE prf_ratios(num_same, prediction_tokens, ground_truth_tokens)

\* lines 42-49 on the two token lists
prf_of_tokens(prediction_tokens, ground_truth_tokens) ==
    prf_of_counts(NumSame(prediction_tokens, ground_truth_tokens),
                  prediction_tokens, ground_truth_tokens)

precision_recall_f1(pred, truth) == prf_of_tokens(tokens_of(pred), tokens_of(truth))

recall(pred, truth) == precision_recall_f1(pred, truth)[2]

f1_score(pred, truth) == precision_recall_f1(pred, truth)[3]

\* metric_fn is "recall" or "f1_score"
apply_metric(metric_fn, pred, truth) ==
    IF metric_fn = "recall" THEN recall(pred, truth) ELSE f1_score(pred, truth)

metric_max_over_ground_truths(metric_fn, pred, ground_truths) ==
    FMax([i \in DOMAIN ground_truths |->
            apply_metric(metric_fn, pred, ground_truths[i])])

-----------------------------------------------------------------------------
(* Paragraph selector *)

\* One pass of the loop of lines 115-127 over paragraph p_idx (0-based);
\* best is <<most_related_para, max_related_score, most_related_para_len>>
\* lines 116-120
fbqm_score(para_tokens, q) ==
    IF Len(q) > 0
    THEN metric_max_over_ground_truths("recall", PyList(para_tokens),
             [i \in DOMAIN q |-> PyStr(q[i])])
    ELSE Zero

\* lines 122-127
fbqm_update(best, p_idx, para_tokens, related_score) ==
    IF \/ FGt(related_score, best[2])
       \/ (FEq(related_score, best[2]) /\ Len(para_tokens) < best[3])
    THEN <<p_idx, related_score, Len(para_tokens)>>
    ELSE best

fbqm_step(best, p_idx, para_tokens, q) ==
    fbqm_update(best, p_idx, para_tokens, fbqm_score(para_tokens, q))

RECURSIVE fbqm_loop(_, _, _, _)
fbqm_loop(best, p_idx, paras, q) ==
    IF p_idx >= Len(paras) THEN best
    ELSE fbqm_loop(fbqm_step(best, p_idx, paras[p_idx + 1], q), p_idx + 1, paras, q)

\* lines 128-131
fbqm_return(best) == <<IF best[1] = -1 THEN 0 ELSE best[1], best[2]>>

\* find_best_question_match(doc, question, with_score=True)
find_best_question_match(d, q) ==
    fbqm_return(fbqm_loop(<<-1, Zero, 0>>, 0, d.segmented_paragraphs, q))

-----------------------------------------------------------------------------
(* Answer span miner *)

\* the length cap of line 183
WindowCap == 1000
\* the initial most_related_para_len of line 149
InitParaLen == 999999

\* ''.join(span_tokens)
RECURSIVE join(_)
join(span_tokens) ==
    IF Len(span_tokens) = 0 THEN ""
    ELSE span_tokens[1] \o join(Tail(span_tokens))

\* the gold answers as the metric receives them: each one a list
answer_lists(answers) == [i \in DOMAIN answers |-> PyList(answers[i])]

\* One pass of the loop of lines 151-162 over paragraph p_idx (0-based);
\* best is <<most_related_para, most_related_para_len, max_related_score>>
ffa_para_update(best, p_idx, para_tokens, related_score) ==
    IF \/ FGt(related_score, best[3])
       \/ (FEq(related_score, best[3]) /\ Len(para_tokens) < best[2])
    THEN <<p_idx, Len(para_tokens), related_score>>
    ELSE best

ffa_para_step(best, p_idx, para_tokens, answers) ==
    IF Len(answers) > 0
    THEN ffa_para_update(best, p_idx, para_tokens,
             metric_max_over_ground_truths("recall", PyList(para_tokens),
                                           answer_lists(answers)))
    ELSE best

RECURSIVE ffa_para_loop(_, _, _, _)
ffa_para_loop(best, p_idx, paras, answers) ==
    IF p_idx >= Len(paras) THEN best
    ELSE ffa_para_loop(ffa_para_step(best, p_idx, paras[p_idx + 1], answers),
                       p_idx + 1, paras, answers)

\* lines 148-163 for one document: the value written to doc['most_related_para']
most_related_para_of(d, answers) ==
    ffa_para_loop(<<-1, InitParaLen, Zero>>, 0, d.segmented_paragraphs, answers)[1]

\* lines 147-163: every document gets its most_related_para
ffa_select_paragraphs(documents, answers) ==
    [i \in DOMAIN documents |->
        [is_selected |-> documents[i].is_selected,
         segmented_paragraphs |-> documents[i].segmented_paragraphs,
         most_related_para |-> most_related_para_of(documents[i], answers)]]

\* lines 173-176
answer_tokens_of(answers) == UNION {Range(answers[i]) : i \in DOMAIN answers}

\* lines 180-181
coerced_para(d) == IF d.most_related_para = -1 THEN 0 ELSE d.most_related_para

\* the paragraph cut one token later, at 1001 tokens
window_one_more(para_tokens) == SubSeq(para_tokens, 1, Min(Len(para_tokens), WindowCap + 1))

\* the paragraph as it is, not cut at 1000 tokens
window_uncapped(para_tokens) == para_tokens

\* line 183: para[:1000]
window(para_tokens) == SubSeq(para_tokens, 1, Min(Len(para_tokens), WindowCap))

\* the span scored against the first gold answer only
span_score_first_answer(W, start_tidx, end_tidx, answers) ==
    IF Len(answers) > 0
    THEN metric_max_over_ground_truths("f1_score",
             PyList(SubSeq(W, start_tidx + 1, end_tidx + 1)),
             answer_lists(SubSeq(answers, 1, 1)))
    ELSE Zero

\* lines 189-194: the score of the span [start_tidx, end_tidx] of the window
span_score(W, start_tidx, end_tidx, answers) ==
    IF Len(answers) > 0
    THEN metric_max_over_ground_truths("f1_score",
             PyList(SubSeq(W, start_tidx + 1, end_tidx + 1)), answer_lists(answers))
    ELSE Zero

\* the best span replaced on an equal score too
ffa_update_on_equal(best, d_idx, W, start_tidx, end_tidx, match_score) ==
    IF ~FGt(best.score, match_score)
    THEN [d_idx |-> d_idx, span |-> <<start_tidx, end_tidx>>, score |-> match_score,
          fake_answer |-> join(SubSeq(W, start_tidx + 1, end_tidx + 1))]
    ELSE best

\* lines 197-201; best is a record of the four best_* locals
ffa_update(best, d_idx, W, start_tidx, end_tidx, match_score) ==
    IF FGt(match_score, best.score)
    THEN [d_idx |-> d_idx, span |-> <<start_tidx, end_tidx>>, score |-> match_score,
          fake_answer |-> join(SubSeq(W, start_tidx + 1, end_tidx + 1))]
    ELSE best

\* lines 187-201: end_tidx runs down from len(W) - 1 to start_tidx and stops
\* at the first span whose score is 0
RECURSIVE ffa_end_loop(_, _, _, _, _, _)
ffa_end_step(best, d_idx, W, start_tidx, end_tidx, answers, match_score) ==
    IF FEq(match_score, Zero) THEN best
    ELSE ffa_end_loop(ffa_update(best, d_idx, W, start_tidx, end_tidx, match_score),
                      d_idx, W, start_tidx, end_tidx - 1, answers)

ffa_end_loop(best, d_idx, W, start_tidx, end_tidx, answers) ==
    IF end_tidx < start_tidx THEN best
    ELSE ffa_end_step(best, d_idx, W, start_tidx, end_tidx, answers,
                      span_score(W, start_tidx, end_tidx, answers))

\* lines 184-186: the start positions that are not skipped, those holding a
\* token of the answers
start_positions(W, answer_tokens) ==
    {s \in 0..(Len(W) - 1) : W[s + 1] \in answer_tokens}

\* lines 184-201: the start loop, taken over the positions it does not skip,
\* in ascending order
SetMin(S) == CHOOSE s \in S : \A t \in S : s <= t

RECURSIVE ffa_start_loop(_, _, _, _, _)
\* the end positions taken from len(W) - 2 down, one short of line 188
ffa_start_step_short(best, d_idx, W, starts, answers, start_tidx) ==
    ffa_start_loop(ffa_end_loop(best, d_idx, W, start_tidx, Len(W) - 2, answers),
                   d_idx, W, starts \ {start_tidx}, answers)

\* lines 184-188: one start position, with its end positions from len(W) - 1
ffa_start_step(best, d_idx, W, starts, answers, start_tidx) ==
    ffa_start_loop(ffa_end_loop(best, d_idx, W, start_tidx, Len(W) - 1, answers),
                   d_idx, W, starts \ {start_tidx}, answers)

ffa_start_loop(best, d_idx, W, starts, answers) ==
    IF starts = {} THEN best
    ELSE ffa_start_step(best, d_idx, W, starts, answers, SetMin(starts))

NoBest == [d_idx |-> -1, span |-> <<-1, -1>>, score |-> Zero, fake_answer |-> "None"]

\* lines 177-201: the loop over the documents from d_idx (0-based) on.
\* st is [documents, best, raised]: the documents as mutated so far, the
\* best_* locals, and the exception that ended the loop ("" for none)
RECURSIVE ffa_doc_loop(_, _, _)
\* lines 184-201 for one document, on its window W
ffa_search_window(best, d_idx, W, answers) ==
    ffa_start_loop(best, d_idx, W, start_positions(W, answer_tokens_of(answers)), answers)

\* lines 180-201 for the selected document d at d_idx
ffa_doc_step(st, d_idx, d, answers) ==
    IF coerced_para(d) >= Len(d.segmented_paragraphs)
    THEN [st EXCEPT !.documents[d_idx + 1].most_related_para = coerced_para(d),
                    !.raised = "IndexError"]
    ELSE ffa_doc_loop(
             [st EXCEPT !.documents[d_idx + 1].most_related_para = coerced_para(d),
                        !.best = ffa_search_window(st.best, d_idx,
                                     window(d.segmented_paragraphs[coerced_para(d) + 1]),
                                     answers)],
             d_idx + 1, answers)

\* the loop over the documents without the test of is_selected
ffa_doc_loop_all(st, d_idx, answers) ==
    IF d_idx >= Len(st.documents) THEN st
    ELSE ffa_doc_step(st, d_idx, st.documents[d_idx + 1], answers)

ffa_doc_loop(st, d_idx, answers) ==
    IF d_idx >= Len(st.documents) THEN st
    ELSE IF ~st.documents[d_idx + 1].is_selected
         THEN ffa_doc_loop(st, d_idx + 1, answers)
         ELSE ffa_doc_step(st, d_idx, st.documents[d_idx + 1], answers)

\* the list the sample already holds under key, where it holds one
ffa_new_list_kept(s, key) ==
    IF key \in DOMAIN s
    THEN (CASE key = "answer_docs" -> s.answer_docs
            [] key = "answer_spans" -> s.answer_spans
            [] key = "fake_answers" -> s.fake_answers
            [] OTHER -> s.match_scores)
    ELSE <<>>

\* lines 165-168: sample[key] = [], whatever the sample held under key
ffa_new_list(s, key) == <<>>

\* lines 202-206: list.append(x) when a span was found
ffa_append(list, found, x) == IF found THEN Append(list, x) ELSE list

\* lines 165-168 and 202-208: the dict the call leaves
ffa_return(s, st, found) ==
    [raised |-> st.raised,
     sample |->
       [documents |-> st.documents,
        segmented_answers |-> s.segmented_answers,
        answer_docs |-> ffa_append(ffa_new_list(s, "answer_docs"), found, st.best.d_idx),
        answer_spans |-> ffa_append(ffa_new_list(s, "answer_spans"), found, st.best.span),
        fake_answers |-> ffa_append(ffa_new_list(s, "fake_answers"), found,
                                    st.best.fake_answer),
        match_scores |-> ffa_append(ffa_new_list(s, "match_scores"), found,
                                    st.best.score)]]

\* line 202: a span was found; an exception left before the line was reached
ffa_found(st) == st.raised = "" /\ FGt(st.best.score, Zero)

ffa_finish(s, st) == ffa_return(s, st, ffa_found(st))

\* find_fake_answer(sample): [raised, sample].  raised names the exception
\* that left the function, "" when it returned; sample is the dict as the
\* call left it
find_fake_answer(s) ==
    ffa_finish(s, ffa_doc_loop([documents |-> ffa_select_paragraphs(s.documents,
                                                  s.segmented_answers),
                                best |-> NoBest, raised |-> ""],
                               0, s.segmented_answers))

-----------------------------------------------------------------------------
(* The inputs the functions are checked on *)

\* Lists of token lists of total size n: each list counts 1 + its length
RECURSIVE ParaLists(_, _)
ParaLists(T, n) ==
    IF n = 0 THEN {<<>>}
    ELSE UNION {{<<p>> \o r : p \in TokSeqs(T, k - 1), r \in ParaLists(T, n - k)}
                : k \in 1..n}

\* Documents of size n >= 1: 1 + the size of the paragraph list
DocsOfSize(n) ==
    {[is_selected |-> b, segmented_paragraphs |-> ps]
        : b \in BOOLEAN, ps \in ParaLists(Tokens, n - 1)}

RECURSIVE DocLists(_)
DocLists(n) ==
    IF n = 0 THEN {<<>>}
    ELSE UNION {{<<d>> \o r : d \in DocsOfSize(k), r \in DocLists(n - k)} : k \in 1..n}

\* s is a sample of size at most n
IsSampleUpTo(s, n) ==
    \E m \in 0..n, k \in 0..n :
        /\ k <= m
        /\ \E ds \in DocLists(k), ans \in ParaLists(Tokens, m - k) :
              s = [documents |-> ds, segmented_answers |-> ans]

\* The same sample with n PadTokens put in front of every paragraph: with
\* n near WindowCap the paragraphs reach across the cap of line 183
PadLens == {WindowCap - 1, WindowCap}
Padded(s, n) ==
    [s EXCEPT !.documents =
        [i \in DOMAIN s.documents |->
            [s.documents[i] EXCEPT !.segmented_paragraphs =
                [j \in DOMAIN s.documents[i].segmented_paragraphs |->
                    [k \in 1..n |-> PadToken] \o s.documents[i].segmented_paragraphs[j]]]]]

\* d and q are a selector input of size at most n: the paragraphs and the
\* question tokens
IsSelInputUpTo(d, q, n) ==
    \E m \in 0..n, k \in 0..n :
        /\ k <= m
        /\ \E ps \in ParaLists(SelTokens, m - k) : d = [segmented_paragraphs |-> ps]
        /\ q \in TokSeqs(SelTokens, k)

\* A sample whose unselected document is the gold answer itself and whose
\* selected document matches it only in part
UnselectedBetter ==
    [documents |->
        <<[is_selected |-> FALSE, segmented_paragraphs |-> << <<"a", "b">> >>],
          [is_selected |-> TRUE, segmented_paragraphs |-> << <<"a">> >>]>>,
     segmented_answers |-> << <<"a", "b">> >>]

\* A sample with equal-scoring spans: in two documents, at two start
\* positions, and at one start position with two lengths
TiedSpans ==
    [documents |->
        <<[is_selected |-> TRUE, segmented_paragraphs |-> << <<"a", "b", "a">> >>],
          [is_selected |-> TRUE, segmented_paragraphs |-> << <<"a", "b", "a">> >>]>>,
     segmented_answers |-> << <<"a">>, <<"a", "b">> >>]

\* The selector's worked example: three paragraphs and the question ["a"]
ExampleDoc == [segmented_paragraphs |-> << <<"a", "x">>, <<"b">>, <<"a">> >>]
ExampleQuestion == <<"a">>

-----------------------------------------------------------------------------
(* State machines *)

vars == <<prediction, ground_truth, prf, doc, question, best_match, sample, ffa,
          script, args, input, pc, index, samples, fut_list, ac_finished, ac_waiter,
          output, stderr>>

NotCalled == <<>>
metric_vars == <<prediction, ground_truth, prf>>
select_vars == <<doc, question, best_match>>
miner_vars == <<sample, ffa>>
MetricIdle == prediction = <<>> /\ ground_truth = <<>> /\ prf = NotCalled
SelectIdle == doc = [segmented_paragraphs |-> <<>>] /\ question = <<>> /\ best_match = NotCalled
MinerIdle == sample = [documents |-> <<>>, segmented_answers |-> <<>>] /\ ffa = "idle"
main_vars == <<script, args, input, pc, index, samples, fut_list, ac_finished,
               ac_waiter, output, stderr>>
MainIdle ==
    /\ script = "none" /\ args = <<>> /\ input = <<>> /\ pc = "idle" /\ index = 0
    /\ samples = <<>> /\ fut_list = <<>> /\ ac_finished = {} /\ ac_waiter = <<>>
    /\ output = <<>> /\ stderr = <<>>

(* precision_recall_f1 on two token lists *)
InitMetric ==
    /\ prediction \in TokSeqsUpTo(Tokens, MaxLen)
    /\ ground_truth \in TokSeqsUpTo(Tokens, MaxLen)
    /\ prf = NotCalled
    /\ SelectIdle /\ MinerIdle /\ MainIdle

CallMetric ==
    /\ prf = NotCalled
    /\ prf' = precision_recall_f1(PyList(prediction), PyList(ground_truth))
    /\ UNCHANGED <<prediction, ground_truth, select_vars, miner_vars, main_vars>>

SpecMetric == InitMetric /\ [][CallMetric]_vars

(* find_best_question_match on a document and a question *)
InitSelect ==
    /\ \/ IsSelInputUpTo(doc, question, MaxSelSize)
       \/ doc = ExampleDoc /\ question = ExampleQuestion
    /\ best_match = NotCalled
    /\ MetricIdle /\ MinerIdle /\ MainIdle

CallSelect ==
    /\ best_match = NotCalled
    /\ best_match' = find_best_question_match(doc, question)
    /\ UNCHANGED <<doc, question, metric_vars, miner_vars, main_vars>>

SpecSelect == InitSelect /\ [][CallSelect]_vars

(* find_fake_answer on a sample, and once more on the sample it returned *)
InitMiner ==
    /\ \/ IsSampleUpTo(sample, MaxSize)
       \/ sample \in {UnselectedBetter, TiedSpans}
       \/ \E m \in 0..MaxLongSize, k \in 0..MaxLongSize, n \in PadLens :
             /\ k <= m
             /\ \E ds \in DocLists(k), ans \in ParaLists(Tokens, m - k) :
                   sample = Padded([documents |-> ds, segmented_answers |-> ans], n)
    /\ ffa = "input"
    /\ MetricIdle /\ SelectIdle /\ MainIdle

\* the call leaves its result in the state
MinerDone(res, how) ==
    /\ sample' = res.sample
    /\ ffa' = IF res.raised = "" THEN how ELSE res.raised

CallMiner ==
    /\ ffa = "input"
    /\ MinerDone(find_fake_answer(sample), "returned")
    /\ UNCHANGED <<metric_vars, select_vars, main_vars>>

CallMinerAgain ==
    /\ ffa = "returned"
    /\ MinerDone(find_fake_answer(sample), "returned again")
    /\ UNCHANGED <<metric_vars, select_vars, main_vars>>

NextMiner == CallMiner \/ CallMinerAgain

SpecMiner == InitMiner /\ [][NextMiner]_vars

-----------------------------------------------------------------------------
(* The orchestrators: main of dureader_preprocess.py and of                 *)
(* dureader_segment.py, with the executor and as_completed of               *)
(* concurrent.futures as the library documents them                        *)

\* A line of the input file: kind is "blank" (nothing but whitespace),
\* "malformed" (not JSON) or "json" (value is what json.loads returns)
BlankLine == [kind |-> "blank", value |-> <<>>]
MalformedLine == [kind |-> "malformed", value |-> <<>>]
JsonLine(v) == [kind |-> "json", value |-> v]

\* two samples the miner annotates, and one on which it raises IndexError
GoodSample ==
    [documents |-> <<[is_selected |-> TRUE, segmented_paragraphs |-> <<<<"a", "b">>>>]>>,
     segmented_answers |-> <<<<"a">>>>]
OtherSample ==
    [documents |-> <<[is_selected |-> TRUE, segmented_paragraphs |-> <<<<"b">>>>]>>,
     segmented_answers |-> <<<<"b">>>>]
BadSample ==
    [documents |-> <<[is_selected |-> TRUE, segmented_paragraphs |-> <<>>]>>,
     segmented_answers |-> <<>>]

\* the lines of the files given to preprocess, and of those given to segment
\* (which parses in the worker, where a blank line is malformed like any other,
\* and never looks into the sample)
Lines == {BlankLine, MalformedLine, JsonLine(GoodSample), JsonLine(OtherSample),
          JsonLine(BadSample)}
SegLines == {BlankLine, JsonLine(GoodSample)}

\* every input file of exactly n lines out of L
RECURSIVE Files(_, _)
Files(L, n) == IF n = 0 THEN {<<>>} ELSE {Append(f, l) : f \in Files(L, n - 1), l \in L}

\* line.strip() leaves the empty string
strips_to_empty(line) == line.kind = "blank"

\* json.loads(line): [raised, value]
json_loads(line) ==
    IF line.kind = "json" THEN [raised |-> "", value |-> line.value]
    ELSE [raised |-> "JSONDecodeError", value |-> <<>>]

\* A future: the call it stands for, its state ("pending", "running",
\* "finished"), and once finished the exception it holds ("" for none) and
\* its result.  line_no is the value futs_map keeps for it (segment); for
\* preprocess, which keeps no such thing, it only names the record
Future(line_no, arg) ==
    [line_no |-> line_no, arg |-> arg, state |-> "pending", raised |-> "", result |-> <<>>]

\* what the task function does with its argument: the sets of [raised, result]
\* it can end with.  preprocess runs find_fake_answer; segment runs proc_sample,
\* which parses the line and calls the CoreNLP server
SegmentFailures == {"HTTPError5xx", "HTTPError4xx", "HTTPErrorOther", "Exception"}
\* the future of a find_fake_answer call: its exception, or else its result
task_outcome(res) ==
    [raised |-> res.raised, result |-> IF res.raised = "" THEN res.sample ELSE <<>>]
task_outcomes(scr, arg) ==
    IF scr = "preprocess"
    THEN {task_outcome(find_fake_answer(arg))}
    ELSE IF json_loads(arg).raised # ""
         THEN {[raised |-> "Exception", result |-> <<>>]}
         ELSE {[raised |-> "", result |-> [segmented |-> arg.value]]}
              \cup {[raised |-> e, result |-> <<>>] : e \in SegmentFailures}

Running == {i \in DOMAIN fut_list : fut_list[i].state = "running"}
Pending == {i \in DOMAIN fut_list : fut_list[i].state = "pending"}
Finished == {i \in DOMAIN fut_list : fut_list[i].state = "finished"}

InitMain ==
    /\ script \in {"preprocess", "segment"}
    /\ args \in [max_workers : 1..MaxWorkers, ignore_4xx : BOOLEAN, ignore_5xx : BOOLEAN,
                 begin_line : {1}, end_line : {0}]
    /\ script = "preprocess" => args.ignore_4xx /\ args.ignore_5xx
    /\ input \in IF script = "preprocess"
                 THEN UNION {Files(Lines, n) : n \in 0..MaxLines}
                 ELSE UNION {Files(SegLines, n) : n \in 0..MaxSegLines}
    /\ pc = "load" /\ index = 0
    /\ samples = <<>> /\ fut_list = <<>> /\ ac_finished = {} /\ ac_waiter = <<>>
    /\ output = <<>> /\ stderr = <<>>
    /\ MetricIdle /\ SelectIdle /\ MinerIdle

pure_vars == <<metric_vars, select_vars, miner_vars>>

\* a message on sys.stderr; text holds the raw line when the message quotes it
Message(what, line_no, text) == [what |-> what, line_no |-> line_no, text |-> text]

\* the load loop naming a line by its 0-based index
LoadParsed_zero_based(parsed) ==
    IF parsed.raised = ""
    THEN /\ samples' = Append(samples, [line_no |-> index + 1, value |-> parsed.value])
         /\ UNCHANGED stderr
    ELSE /\ stderr' = Append(stderr, Message("json-ignored", index, <<>>))
         /\ UNCHANGED samples

(* dureader_preprocess.main, lines 239-244: the line is parsed and kept, or *)
(* the warning names it by index + 1 and it is dropped                      *)
LoadParsed(parsed) ==
    IF parsed.raised = ""
    THEN /\ samples' = Append(samples, [line_no |-> index + 1, value |-> parsed.value])
         /\ UNCHANGED stderr
    ELSE /\ stderr' = Append(stderr, Message("json-ignored", index + 1, <<>>))
         /\ UNCHANGED samples

(* lines 235-244: one line of the load loop *)

LoadLine ==
    /\ script = "preprocess" /\ pc = "load" /\ index < Len(input)
    /\ IF strips_to_empty(input[index + 1])
       THEN UNCHANGED <<samples, stderr>>
       ELSE LoadParsed(json_loads(input[index + 1]))
    /\ index' = index + 1
    /\ UNCHANGED <<script, args, input, pc, fut_list, ac_finished, ac_waiter, output,
                   pure_vars>>

(* line 246: the input is read, the executor is entered *)
LoadDone ==
    /\ script = "preprocess" /\ pc = "load" /\ index = Len(input)
    /\ pc' = "submit"
    /\ UNCHANGED <<script, args, input, index, samples, fut_list, ac_finished, ac_waiter,
                   output, stderr, pure_vars>>

(* lines 248-251: executor.submit for the next sample *)
Submit ==
    /\ script = "preprocess" /\ pc = "submit" /\ Len(fut_list) < Len(samples)
    /\ fut_list' = Append(fut_list, Future(samples[Len(fut_list) + 1].line_no,
                                           samples[Len(fut_list) + 1].value))
    /\ UNCHANGED <<script, args, input, pc, index, samples, ac_finished, ac_waiter,
                   output, stderr, pure_vars>>

(* dureader_segment.main, line 157: the lines are read, none is parsed *)
SegReadLines ==
    /\ script = "segment" /\ pc = "load"
    /\ samples' = input
    /\ pc' = "submit"
    /\ UNCHANGED <<script, args, input, index, fut_list, ac_finished, ac_waiter,
                   output, stderr, pure_vars>>

(* segment lines 161-168: the next line is submitted if its number is in range *)
SegSubmit ==
    /\ script = "segment" /\ pc = "submit" /\ index < Len(samples)
    /\ IF index + 1 >= args.begin_line
          /\ (args.end_line <= 0 \/ index + 1 <= args.end_line)
       THEN fut_list' = Append(fut_list, Future(index + 1, samples[index + 1]))
       ELSE UNCHANGED fut_list
    /\ index' = index + 1
    /\ UNCHANGED <<script, args, input, pc, samples, ac_finished, ac_waiter, output,
                   stderr, pure_vars>>

(* preprocess lines 253-256, segment line 171: every task is submitted; the  *)
(* first next() of as_completed sets aside the futures that are finished    *)
(* and installs its waiter on the rest                                      *)
BeginWait ==
    /\ pc = "submit"
    /\ IF script = "preprocess" THEN Len(fut_list) = Len(samples)
                                ELSE index = Len(samples)
    /\ ac_finished' = Finished
    /\ ac_waiter' = <<>>
    /\ samples' = IF script = "preprocess" THEN <<>> ELSE samples
    /\ pc' = "wait"
    /\ UNCHANGED <<script, args, input, index, fut_list, output, stderr, pure_vars>>

(* The pool: a free worker takes the oldest pending call *)
StartTask ==
    /\ pc \in {"submit", "wait", "raise", "interrupted"}
    /\ Pending # {}
    /\ Cardinality(Running) < args.max_workers
    /\ fut_list' = [fut_list EXCEPT ![SetMin(Pending)].state = "running"]
    /\ UNCHANGED <<script, args, input, pc, index, samples, ac_finished, ac_waiter,
                   output, stderr, pure_vars>>

(* The pool: a running call ends and its future is set; a waiter that is    *)
(* installed is told                                                        *)
FinishTask ==
    /\ \E i \in Running :
         \E o \in task_outcomes(script, fut_list[i].arg) :
            /\ fut_list' = [fut_list EXCEPT ![i].state = "finished",
                                            ![i].raised = o.raised,
                                            ![i].result = o.result]
            /\ ac_waiter' = IF pc \in {"wait", "raise", "interrupted"}
                            THEN Append(ac_waiter, i)
                            ELSE ac_waiter
    /\ UNCHANGED <<script, args, input, pc, index, samples, ac_finished, output, stderr,
                   pure_vars>>

\* as_completed yielding only the futures that were finished at its start
ac_next_set_aside_only == ac_finished

\* as_completed: the futures it may yield next.  Those set aside as already
\* finished come out of a set, in no order the library promises; the others
\* come in the order they finished
ac_next ==
    IF ac_finished # {} THEN ac_finished
    ELSE IF Len(ac_waiter) > 0 THEN {ac_waiter[1]}
    ELSE {}

\* the future i has been yielded
ac_yield(i) ==
    IF i \in ac_finished
    THEN ac_finished' = ac_finished \ {i} /\ UNCHANGED ac_waiter
    ELSE ac_waiter' = Tail(ac_waiter) /\ UNCHANGED ac_finished

\* the record printed twice
print_record_twice(fut) ==
    output' = output \o <<[line_no |-> fut.line_no, txt |-> fut.result],
                          [line_no |-> fut.line_no, txt |-> fut.result]>>

\* print(json.dumps(result, ensure_ascii=False), file=args.output)
print_record(fut) ==
    output' = Append(output, [line_no |-> fut.line_no, txt |-> fut.result])

\* a loop body that passes over a future holding an exception
retrieve_result_skipping(fut) ==
    IF fut.raised = ""
    THEN print_record(fut) /\ UNCHANGED pc
    ELSE UNCHANGED <<pc, output>>

\* preprocess lines 257-258: fut.result() returns and the record is printed,
\* or it raises and the exception leaves the loop
retrieve_result(fut) ==
    IF fut.raised = ""
    THEN print_record(fut) /\ UNCHANGED pc
    ELSE pc' = "raise" /\ UNCHANGED output

(* preprocess lines 256-258: the next completed future *)
Retrieve ==
    /\ script = "preprocess" /\ pc = "wait"
    /\ \E i \in ac_next :
         /\ ac_yield(i)
         /\ retrieve_result(fut_list[i])
    /\ UNCHANGED <<script, args, input, index, samples, fut_list, stderr, pure_vars>>

\* segment lines 173-215: what the loop body does with the future
seg_handle(fut) ==
    IF fut.raised = ""
    THEN print_record(fut) /\ UNCHANGED <<pc, stderr>>
    ELSE IF fut.raised = "HTTPError5xx"
    THEN /\ stderr' = Append(stderr, Message("server-error", fut.line_no, <<>>))
         /\ pc' = IF args.ignore_5xx THEN pc ELSE "raise"
         /\ UNCHANGED output
    ELSE IF fut.raised = "HTTPError4xx"
    THEN /\ stderr' = Append(stderr, Message("request-error", fut.line_no, <<>>))
         /\ pc' = IF args.ignore_4xx THEN pc ELSE "raise"
         /\ UNCHANGED output
    ELSE IF fut.raised = "HTTPErrorOther"
    THEN /\ stderr' = Append(stderr, Message("http-abort", fut.line_no, <<fut.arg>>))
         /\ pc' = "raise"
         /\ UNCHANGED output
    ELSE /\ stderr' = Append(stderr, Message("abort", fut.line_no, <<fut.arg>>))
         /\ pc' = "raise"
         /\ UNCHANGED output

(* segment lines 171-215: the next completed future *)
SegRetrieve ==
    /\ script = "segment" /\ pc = "wait"
    /\ \E i \in ac_next :
         /\ ac_yield(i)
         /\ seg_handle(fut_list[i])
    /\ UNCHANGED <<script, args, input, index, samples, fut_list, pure_vars>>

(* as_completed has yielded every future: the loop ends *)
LoopEnd ==
    /\ pc = "wait"
    /\ ac_next = {} /\ Finished = DOMAIN fut_list
    /\ pc' = "exit"
    /\ UNCHANGED <<script, args, input, index, samples, fut_list, ac_finished, ac_waiter,
                   output, stderr, pure_vars>>

(* SIGINT reaches the main process while it is in the drain loop:          *)
(* KeyboardInterrupt is raised there and leaves the loop (segment: through *)
(* the re-raise of lines 202-203 when it arrives inside fut.result())      *)
Interrupt ==
    /\ pc = "wait"
    /\ pc' = "interrupted"
    /\ UNCHANGED <<script, args, input, index, samples, fut_list, ac_finished, ac_waiter,
                   output, stderr, pure_vars>>

\* segment lines 217-218: KeyboardInterrupt is caught and main returns;
\* preprocess has no handler, the exception leaves main with a traceback
after_interrupt ==
    IF script = "segment"
    THEN pc' = "done" /\ UNCHANGED stderr
    ELSE /\ pc' = "aborted"
         /\ stderr' = Append(stderr, Message("traceback", 0, <<>>))

(* The with block is left: executor.shutdown(wait=True) returns once every *)
(* submitted call has run; main then returns, or the exception that left   *)
(* the loop ends the program with a traceback                              *)
Shutdown ==
    /\ pc \in {"exit", "raise", "interrupted"}
    /\ Finished = DOMAIN fut_list
    /\ IF pc = "exit"
       THEN pc' = "done" /\ UNCHANGED stderr
       ELSE IF pc = "interrupted"
       THEN after_interrupt
       ELSE /\ pc' = "crashed"
            /\ stderr' = Append(stderr, Message("traceback", 0, <<>>))
    /\ UNCHANGED <<script, args, input, index, samples, fut_list, ac_finished, ac_waiter,
                   output, pure_vars>>

Next ==
    \/ LoadLine \/ LoadDone \/ Submit
    \/ SegReadLines \/ SegSubmit
    \/ BeginWait \/ StartTask \/ FinishTask
    \/ Retrieve \/ SegRetrieve \/ LoopEnd \/ Interrupt \/ Shutdown

Spec == InitMain /\ [][Next]_vars

\* the steps of the main process
MainStep ==
    \/ LoadLine \/ LoadDone \/ Submit
    \/ SegReadLines \/ SegSubmit
    \/ BeginWait \/ Retrieve \/ SegRetrieve \/ LoopEnd \/ Shutdown

\* Weak fairness of FinishTask, written out: a call that is running ends,
\* one way or another, so FinishTask is enabled exactly when Running # {}
FairFinish == []<>(Running = {}) \/ []<><<FinishTask>>_vars

(* The same program with the workers scheduled fairly: a free worker takes *)
(* a pending call, a running call ends, and the main process goes on       *)
(* whenever it can.  Nothing is assumed of the arrival of SIGINT           *)
InitFair == InitMain /\ Len(input) <= MaxFairLines

SpecFair ==
    /\ InitFair /\ [][Next]_vars
    /\ WF_vars(StartTask) /\ WF_vars(MainStep) /\ FairFinish

-----------------------------------------------------------------------------
(* Properties of the metric engine, checked under SpecMetric *)

\* B with its first occurrence of t taken out
RECURSIVE RemoveFirst(_, _)
RemoveFirst(B, t) ==
    IF B = <<>> THEN <<>>
    ELSE IF Head(B) = t THEN Tail(B)
    ELSE <<Head(B)>> \o RemoveFirst(Tail(B), t)

\* The size of the multiset intersection of A and B, by pairing every token
\* instance of A with an instance of B that is still free
RECURSIVE SharedInstances(_, _)
SharedInstances(A, B) ==
    IF A = <<>> THEN 0
    ELSE IF Head(A) \in Range(B)
         THEN 1 + SharedInstances(Tail(A), RemoveFirst(B, Head(A)))
         ELSE SharedInstances(Tail(A), B)

\* C10: for all token lists A and B, the empty ones included,
\* precision_recall_f1(A, B) never divides by zero; it returns (0, 0, 0)
\* exactly when the multiset intersection of A and B is empty; otherwise
\* p = overlap / len(A), r = overlap / len(B) and f1 = 2pr / (p + r), where
\* overlap is the sum over tokens of min(count in A, count in B); so f1 is 0
\* exactly when A and B share no token instance.
C10_PrecisionRecallF1 ==
    prf # NotCalled =>
        LET overlap == SharedInstances(prediction, ground_truth)
            p == Frac(overlap, Len(prediction))
            r == Frac(overlap, Len(ground_truth))
        IN /\ \A i \in 1..3 : ~IsRaised(prf[i])
           /\ (prf = <<Zero, Zero, Zero>>) <=> (overlap = 0)
           /\ overlap > 0 =>
                 /\ prf[1] = p
                 /\ prf[2] = r
                 /\ prf[3] = FDiv(FMul(FMul(<<2, 1>>, p), r), FAdd(p, r))
                 /\ prf[3] = Frac(2 * overlap, Len(prediction) + Len(ground_truth))
           /\ (prf[3] = Zero) <=> (overlap = 0)

\* two lists of different lengths with a repeated token: overlap 2
C10_Witness ==
    /\ prediction = <<"a", "a">>
    /\ ground_truth = <<"a", "b", "a">>
    /\ prf = << <<1, 1>>, <<2, 3>>, <<4, 5>> >>

\* C11: for all token lists A and B, f1_score(A, B) == f1_score(B, A), and
\* the precision of (A, B) equals the recall of (B, A): precision and recall
\* swap when the arguments are swapped.
C11_SwappedArguments ==
    prf # NotCalled =>
        /\ prf[3] = f1_score(PyList(ground_truth), PyList(prediction))
        /\ prf[1] = recall(PyList(ground_truth), PyList(prediction))
        /\ prf[2] = precision_recall_f1(PyList(ground_truth), PyList(prediction))[1]

\* lists of different lengths, so that precision and recall differ
C11_Witness ==
    /\ prediction = <<"a">>
    /\ ground_truth = <<"a", "b">>
    /\ prf = << <<1, 1>>, <<1, 2>>, <<2, 3>> >>
    /\ precision_recall_f1(PyList(ground_truth), PyList(prediction))
         = << <<1, 2>>, <<1, 1>>, <<2, 3>> >>

-----------------------------------------------------------------------------
(* Properties of the paragraph selector, checked under SpecSelect *)

\* the paragraph shares at least one token with the question tokens
SharesToken(para_tokens, q) == Range(para_tokens) \cap Range(q) # {}

\* the 1-based positions of the paragraphs of d that score 1
ScoreOne(d, q) ==
    {i \in DOMAIN d.segmented_paragraphs : SharesToken(d.segmented_paragraphs[i], q)}

\* the 0-based index the selection rule names
RuleIndex(d, q) ==
    IF q = <<>> \/ ScoreOne(d, q) = {} THEN 0
    ELSE (CHOOSE i \in ScoreOne(d, q) :
            \A j \in ScoreOne(d, q) :
                \/ Len(d.segmented_paragraphs[i]) < Len(d.segmented_paragraphs[j])
                \/ /\ Len(d.segmented_paragraphs[i]) = Len(d.segmented_paragraphs[j])
                   /\ i <= j) - 1

\* C9: find_best_question_match scores a paragraph 1 if it shares at least
\* one token with the question tokens and 0 otherwise, and returns index 0 if
\* the question is empty or no paragraph scores 1, else the index of the
\* first paragraph of minimal length among those scoring 1; for the
\* paragraphs [[a,x],[b],[a]] and the question [a] it returns 2.
C9_SelectionRule ==
    best_match # NotCalled =>
        /\ best_match[1] = RuleIndex(doc, question)
        /\ (doc = ExampleDoc /\ question = ExampleQuestion) => best_match[1] = 2

-----------------------------------------------------------------------------
(* Properties of the answer span miner, checked under SpecMiner *)

\* find_fake_answer has returned, from its first or its second application
Returned == ffa \in {"returned", "returned again"}

\* the paragraph most_related_para names in document d
RelatedPara(d) == d.segmented_paragraphs[d.most_related_para + 1]

\* the first n tokens of a paragraph
FirstTokens(P, n) == IF Len(P) <= n THEN P ELSE SubSeq(P, 1, n)

\* the tokens at the 0-based positions i..j of W put together
RECURSIVE SpanText(_, _, _)
SpanText(W, i, j) == IF i > j THEN "" ELSE W[i + 1] \o SpanText(W, i + 1, j)

\* C4: if the sample has exactly one document, it is selected, and its
\* most-related paragraph (non-empty, at most 1000 tokens) is exactly the
\* token sequence of one of the gold answers, then after find_fake_answer
\* match_scores = [1.0], answer_spans = [[0, len(paragraph) - 1]] and
\* fake_answers[0] is the concatenation of the whole paragraph.
C4_ExactAnswer ==
    (/\ Returned
     /\ Len(sample.documents) = 1
     /\ sample.documents[1].is_selected
     /\ Len(RelatedPara(sample.documents[1])) \in 1..WindowCap
     /\ \E i \in DOMAIN sample.segmented_answers :
           sample.segmented_answers[i] = RelatedPara(sample.documents[1]))
    => /\ sample.match_scores = <<One>>
       /\ sample.answer_spans = << <<0, Len(RelatedPara(sample.documents[1])) - 1>> >>
       /\ sample.fake_answers =
            <<SpanText(RelatedPara(sample.documents[1]), 0,
                       Len(RelatedPara(sample.documents[1])) - 1)>>

\* one selected document whose only paragraph is the only gold answer
C4_Witness ==
    /\ ffa = "returned"
    /\ sample.documents = <<[is_selected |-> TRUE, most_related_para |-> 0,
                             segmented_paragraphs |-> << <<"a", "b">> >>]>>
    /\ sample.segmented_answers = << <<"a", "b">> >>
    /\ sample.match_scores = <<One>>
    /\ sample.answer_spans = << <<0, 1>> >>
    /\ sample.fake_answers = <<"ab">>

\* the window of document d holds no token of any gold answer, or d has no
\* paragraph at the index it names
NoOverlap(d, answers) ==
    d.most_related_para + 1 \in DOMAIN d.segmented_paragraphs =>
        Range(FirstTokens(RelatedPara(d), WindowCap))
            \cap UNION {Range(answers[i]) : i \in DOMAIN answers} = {}

\* a degenerate sample: no gold answer, no selected document, or no span of
\* any eligible window that overlaps a gold answer
Degenerate(s) ==
    \/ s.segmented_answers = <<>>
    \/ \A i \in DOMAIN s.documents : ~s.documents[i].is_selected
    \/ \A i \in DOMAIN s.documents :
          s.documents[i].is_selected => NoOverlap(s.documents[i], s.segmented_answers)

\* C5: on a degenerate sample find_fake_answer raises nothing and returns
\* the sample with answer_docs, answer_spans, fake_answers and match_scores
\* all empty.
C5_DegenerateSample ==
    (ffa # "input" /\ Degenerate(sample))
    => /\ Returned
       /\ sample.answer_docs = <<>> /\ sample.answer_spans = <<>>
       /\ sample.fake_answers = <<>> /\ sample.match_scores = <<>>

\* C6: after find_fake_answer has completed, every document of the sample,
\* selected or not, with or without gold answers, has a most_related_para
\* that is a valid index into its paragraphs; it is never left as -1.
C6_ValidParagraphIndex ==
    Returned =>
        \A i \in DOMAIN sample.documents :
            /\ sample.documents[i].most_related_para # -1
            /\ sample.documents[i].most_related_para + 1
                  \in DOMAIN sample.documents[i].segmented_paragraphs

\* C7: whenever find_fake_answer records an answer, with W the first 1000
\* tokens of the most-related paragraph of document answer_docs[0], the
\* span [start, end] = answer_spans[0] has 0 <= start <= end < len(W), and
\* fake_answers[0] is the concatenation of the tokens W[start..end].
C7_SpanInWindow ==
    (Returned /\ Len(sample.answer_docs) > 0) =>
        LET W == FirstTokens(RelatedPara(sample.documents[sample.answer_docs[1] + 1]),
                             WindowCap)
            start == sample.answer_spans[1][1]
            end == sample.answer_spans[1][2]
        IN /\ 0 <= start /\ start <= end /\ end < Len(W)
           /\ sample.fake_answers[1] = SpanText(W, start, end)

\* a paragraph longer than the window, and the answer at the window's last
\* position
C7_Witness ==
    /\ ffa = "returned"
    /\ Len(sample.answer_docs) = 1
    /\ Len(RelatedPara(sample.documents[sample.answer_docs[1] + 1])) > WindowCap
    /\ sample.answer_spans = << <<WindowCap - 1, WindowCap - 1>> >>

\* C8: after find_fake_answer the four lists answer_docs, answer_spans,
\* fake_answers and match_scores have the same length, 0 or 1, and when it
\* is 1 the match score is greater than 0; the same holds when the function
\* is applied again to a sample that already went through it.
C8_ListsAgree ==
    Returned =>
        /\ Len(sample.answer_docs) \in {0, 1}
        /\ Len(sample.answer_spans) = Len(sample.answer_docs)
        /\ Len(sample.fake_answers) = Len(sample.answer_docs)
        /\ Len(sample.match_scores) = Len(sample.answer_docs)
        /\ Len(sample.match_scores) = 1 => FGt(sample.match_scores[1], Zero)

\* the second application on a sample that held an answer
C8_Witness ==
    /\ ffa = "returned again"
    /\ Len(sample.match_scores) = 1
    /\ Len(sample.documents) = 2

\* the tokens of the gold answers of sample s
AnswerTokens(s) == UNION {Range(s.segmented_answers[i]) : i \in DOMAIN s.segmented_answers}

\* the documents of s that are eligible answer sources
Eligible(s) == {i \in DOMAIN s.documents : s.documents[i].is_selected}

\* C12: span search looks only at the first 1000 tokens of the most-related
\* paragraph: for a sample whose only eligible document has a winning
\* paragraph in which every occurrence of every gold-answer token lies at
\* token index 1000 or beyond, find_fake_answer finds nothing and
\* match_scores stays empty.
C12_WindowCap ==
    (/\ Returned
     /\ Cardinality(Eligible(sample)) = 1
     /\ \A d \in Eligible(sample) :
           \A i \in DOMAIN RelatedPara(sample.documents[d]) :
               RelatedPara(sample.documents[d])[i] \in AnswerTokens(sample)
                   => i - 1 >= WindowCap)
    => /\ sample.match_scores = <<>>
       /\ sample.answer_docs = <<>>

\* a gold-answer token at index 1000 of the winning paragraph, and nothing found
C12_Witness ==
    /\ ffa = "returned"
    /\ Len(sample.documents) = 1 /\ sample.documents[1].is_selected
    /\ Len(RelatedPara(sample.documents[1])) > WindowCap
    /\ RelatedPara(sample.documents[1])[WindowCap + 1] \in AnswerTokens(sample)
    /\ sample.match_scores = <<>>

\* the sample with the paragraphs of every unselected document taken away
WithoutUnselected(s) ==
    [documents |->
        [i \in DOMAIN s.documents |->
            [is_selected |-> s.documents[i].is_selected,
             segmented_paragraphs |->
                IF s.documents[i].is_selected THEN s.documents[i].segmented_paragraphs
                ELSE <<>>]],
     segmented_answers |-> s.segmented_answers]

\* the four lists a call left in sample s
Recorded(s) == <<s.answer_docs, s.answer_spans, s.fake_answers, s.match_scores>>

\* C13: only documents with is_selected = true are answer sources: whenever
\* find_fake_answer records an answer, answer_docs[0] is the index of a
\* document whose is_selected is true, and no span of a document with
\* is_selected = false is ever scored, even when such a document holds a
\* better-matching span: what is recorded is what is recorded without the
\* paragraphs of the unselected documents.
C13_SelectedOnly ==
    Returned =>
        /\ Len(sample.answer_docs) > 0 =>
              /\ sample.answer_docs[1] + 1 \in DOMAIN sample.documents
              /\ sample.documents[sample.answer_docs[1] + 1].is_selected
        /\ Recorded(sample) = Recorded(find_fake_answer(WithoutUnselected(sample)).sample)

\* an unselected document that is the gold answer itself, before a selected
\* one that matches it only in part
C13_Witness ==
    /\ ffa = "returned"
    /\ WithoutUnselected(sample) = WithoutUnselected(UnselectedBetter)
    /\ sample.documents[1].segmented_paragraphs = sample.segmented_answers
    /\ sample.answer_docs = <<1>>
    /\ sample.answer_spans = << <<0, 0>> >>
    /\ sample.match_scores = << <<2, 3>> >>

\* the score phase A gives a paragraph: its best recall against the answers
ParaScore(para_tokens, answers) ==
    metric_max_over_ground_truths("recall", PyList(para_tokens), answer_lists(answers))

\* the running-best rule of find_best_question_match (best score 0 and best
\* length 0 to begin with, the two-clause update) over the paragraphs from
\* p_idx on, scored against the answers
RECURSIVE RunningBest(_, _, _, _)
RunningBest(best, p_idx, paras, answers) ==
    IF p_idx >= Len(paras) THEN best
    ELSE RunningBest(fbqm_update(best, p_idx, paras[p_idx + 1],
                                 ParaScore(paras[p_idx + 1], answers)),
                     p_idx + 1, paras, answers)

\* C16: phase A of find_fake_answer uses the same tie-break as
\* find_best_question_match: for every document and every non-empty answer
\* set, the index it writes to most_related_para (after the -1 to 0
\* coercion) equals the index that the running-best rule of
\* find_best_question_match, with best score 0 and best length 0 as initial
\* values, produces on the same per-paragraph scores.
C16_SameTieBreak ==
    (Returned /\ sample.segmented_answers # <<>>) =>
        \A i \in DOMAIN sample.documents :
            coerced_para(sample.documents[i])
              = fbqm_return(RunningBest(<<-1, Zero, 0>>, 0,
                                        sample.documents[i].segmented_paragraphs,
                                        sample.segmented_answers))[1]

\* C17: reading the most-related paragraph in span search never fails: for
\* every sample and every document with is_selected = true, including a
\* document whose segmented_paragraphs is empty and a sample whose gold
\* answers are empty, after most_related_para == -1 is coerced to 0 the
\* lookup segmented_paragraphs[most_related_para] succeeds.
C17_LookupSucceeds ==
    ffa # "input" =>
        /\ ffa # "IndexError"
        /\ \A i \in Eligible(sample) :
              sample.documents[i].most_related_para + 1
                  \in DOMAIN sample.documents[i].segmented_paragraphs

\* the window of document d of sample s
WindowOf(s, d) == FirstTokens(RelatedPara(s.documents[d + 1]), WindowCap)

\* the spans the search evaluates: <<document, start, end>>, 0-based, in the
\* window of an eligible document, starting at a gold-answer token
Spans(s) ==
    UNION {UNION {{<<i - 1, st, en>> : en \in st..(Len(WindowOf(s, i - 1)) - 1)}
                  : st \in {t \in 0..(Len(WindowOf(s, i - 1)) - 1) :
                               WindowOf(s, i - 1)[t + 1] \in AnswerTokens(s)}}
           : i \in Eligible(s)}

\* the f1 of token list A against the gold answer B, from the overlap
F1Of(A, B) ==
    IF SharedInstances(A, B) = 0 THEN Zero
    ELSE Frac(2 * SharedInstances(A, B), Len(A) + Len(B))

\* the score of span c is at least x: some gold answer gives it that f1
ScoreAtLeast(s, c, x) ==
    \E k \in DOMAIN s.segmented_answers :
        ~FGt(x, F1Of(SubSeq(WindowOf(s, c[1]), c[2] + 1, c[3] + 1), s.segmented_answers[k]))

\* span c comes before span e in scan order: documents ascending, start
\* ascending, end descending
ScannedBefore(c, e) ==
    \/ c[1] < e[1]
    \/ c[1] = e[1] /\ c[2] < e[2]
    \/ c[1] = e[1] /\ c[2] = e[2] /\ c[3] > e[3]

\* C20: the recorded answer is replaced only on a strictly greater score,
\* over the whole sample: among all spans evaluated, in scan order (eligible
\* documents by ascending index, start ascending, end descending), the
\* recorded (document, span, score) is the first one that attains the
\* maximum score, so among equal-scoring spans an earlier document beats a
\* later one, an earlier start beats a later one, and at the same start the
\* longer span beats the shorter.
C20_FirstMaximum ==
    Returned =>
        /\ Spans(sample) = {} <=> sample.answer_docs = <<>>
        /\ sample.answer_docs # <<>> =>
              LET c == <<sample.answer_docs[1], sample.answer_spans[1][1],
                         sample.answer_spans[1][2]>>
                  x == sample.match_scores[1]
              IN /\ c \in Spans(sample)
                 /\ ScoreAtLeast(sample, c, x)
                 /\ \A e \in Spans(sample) :
                       /\ ~ScoreAtLeast(sample, e, x) \/ e = c \/ ScannedBefore(c, e)
                       /\ \A k \in DOMAIN sample.segmented_answers :
                             ~FGt(F1Of(SubSeq(WindowOf(sample, e[1]), e[2] + 1, e[3] + 1),
                                       sample.segmented_answers[k]), x)

\* the first of five spans of score 1 is recorded: document 0, start 0, the
\* longer of the two spans that start there
C20_Witness ==
    /\ ffa = "returned"
    /\ sample.segmented_answers = TiedSpans.segmented_answers
    /\ Len(sample.documents) = 2
    /\ \A i \in 1..2 : /\ sample.documents[i].is_selected
                        /\ RelatedPara(sample.documents[i]) = <<"a", "b", "a">>
    /\ sample.answer_docs = <<0>>
    /\ sample.answer_spans = << <<0, 1>> >>
    /\ sample.match_scores = <<One>>

\* the contiguous spans <<start, end>>, 0-based, of the window W, whatever
\* token they start on
AllSpans(W) ==
    UNION {{<<st, en>> : en \in st..(Len(W) - 1)}
           : st \in (IF Len(W) > MaxTail THEN Len(W) - MaxTail ELSE 0)..(Len(W) - 1)}

\* the best-over-references f1 of the token list A is at most x
BestF1AtMost(A, answers, x) ==
    \A k \in DOMAIN answers : ~FGt(F1Of(A, answers[k]), x)

\* the best-over-references f1 of the token list A is x
BestF1Is(A, answers, x) ==
    /\ BestF1AtMost(A, answers, x)
    /\ \/ x = Zero
       \/ \E k \in DOMAIN answers : F1Of(A, answers[k]) = x

\* no span of the window W scores above x
NoSpanAbove(W, answers, x) ==
    \A c \in AllSpans(W) : BestF1AtMost(SubSeq(W, c[1] + 1, c[2] + 1), answers, x)

\* some span of the window W scores x
SomeSpanAt(W, answers, x) ==
    \E c \in AllSpans(W) : BestF1Is(SubSeq(W, c[1] + 1, c[2] + 1), answers, x)

\* every span of W that starts on a gold-answer token has a score above 0,
\* so the test of line 195 fails at every span the search evaluates
NoZeroBreak(W, answers, answer_tokens) ==
    \A c \in AllSpans(W) :
        W[c[1] + 1] \in answer_tokens =>
            /\ FGt(span_score(W, c[1], c[2], answers), Zero)
            /\ BestF1Is(SubSeq(W, c[1] + 1, c[2] + 1), answers,
                        span_score(W, c[1], c[2], answers))

\* the maximum of the best-over-references f1 over all spans of all eligible
\* windows of sample s is x; it is 0 when there is no span
MaxSpanScoreIs(s, x) ==
    /\ \A d \in Eligible(s) : NoSpanAbove(WindowOf(s, d - 1), s.segmented_answers, x)
    /\ \/ x = Zero
       \/ \E d \in Eligible(s) : SomeSpanAt(WindowOf(s, d - 1), s.segmented_answers, x)

\* C21: in find_fake_answer the zero-score break is never taken (every span
\* that starts on a token of the answer token set has best-over-references
\* f1 > 0), and so, together with the start-token prefilter, the miner loses
\* nothing: for every sample the recorded match score equals the maximum,
\* over all eligible documents and all contiguous spans [s, e] of their
\* 1000-token windows, of the best-over-references f1, and no answer is
\* recorded exactly when that maximum is 0.
C21_NothingLost ==
    Returned =>
        /\ \A d \in Eligible(sample) :
              NoZeroBreak(WindowOf(sample, d - 1), sample.segmented_answers,
                          AnswerTokens(sample))
        /\ Len(sample.match_scores) <= 1
        /\ sample.match_scores = <<>> <=> MaxSpanScoreIs(sample, Zero)
        /\ sample.match_scores # <<>> => MaxSpanScoreIs(sample, sample.match_scores[1])

\* a span that starts off the answer tokens, [0, 1] of ['b', 'a'], scores
\* 2/3 and is skipped; the recorded score is the maximum, 1, of span [1, 1]
C21_Witness ==
    /\ ffa = "returned"
    /\ Len(sample.documents) = 1
    /\ sample.documents[1].is_selected
    /\ sample.documents[1].segmented_paragraphs = << <<"b", "a">> >>
    /\ sample.segmented_answers = << <<"a">> >>
    /\ BestF1Is(<<"b", "a">>, sample.segmented_answers, <<2, 3>>)
    /\ sample.answer_spans = << <<1, 1>> >>
    /\ sample.match_scores = <<One>>

-----------------------------------------------------------------------------
(* Properties of the orchestrator, checked under Spec *)

IsJson(line) == line.kind = "json"
IsMalformed(line) == line.kind = "malformed"

\* the valid records of the input, in input order, and their annotations
ValidRecords == SelectSeq(input, IsJson)
Annotated == [k \in DOMAIN ValidRecords |-> find_fake_answer(ValidRecords[k].value).sample]

\* the records of the output stream, in the order they were written
Written == [k \in DOMAIN output |-> output[k].txt]

\* s and t hold the same records, each as many times
IsPermutation(s, t) ==
    /\ Len(s) = Len(t)
    /\ \A x \in Range(s) \cup Range(t) :
          Cardinality({i \in DOMAIN s : s[i] = x}) = Cardinality({i \in DOMAIN t : t[i] = x})

\* C1: for a run of dureader_preprocess.main over N valid records in which
\* no task fails, the output is a permutation of the N annotated records,
\* each input's annotation appearing exactly once, and with a worker pool of
\* size 1 the output records appear in exactly the input order, for every
\* timing of task completion relative to submission and draining.
C1_OutputOrder ==
    (script = "preprocess" /\ pc = "done") =>
        /\ IsPermutation(Written, Annotated)
        /\ \A j, k \in DOMAIN output : j # k => output[j].line_no # output[k].line_no
        /\ args.max_workers = 1 => Written = Annotated

\* the lines the load loop has gone through
Loaded == 1..(IF pc = "load" THEN index ELSE Len(input))

IsWarning(m) == m.what = "json-ignored"
Warnings == SelectSeq(stderr, IsWarning)

\* C2: while loading, a line that fails to parse produces exactly one
\* warning carrying that line's 1-based line number (blank lines count
\* towards the numbering), is dropped, and loading continues: the number of
\* samples submitted equals the number of non-blank lines that parse, and
\* with no task failure so does the number of output records; 3 lines with
\* line 2 invalid give 2 output records and one warning naming line 2.
C2_ParseFailures ==
    script = "preprocess" =>
        /\ Len(Warnings) = Cardinality({i \in Loaded : IsMalformed(input[i])})
        /\ \A k \in DOMAIN Warnings :
              /\ Warnings[k].line_no \in Loaded
              /\ IsMalformed(input[Warnings[k].line_no])
              /\ \A j \in 1..(k - 1) : Warnings[j].line_no < Warnings[k].line_no
        /\ pc = "load" => Len(samples) = Cardinality({i \in Loaded : IsJson(input[i])})
        /\ pc \notin {"load", "submit"} =>
              Len(fut_list) = Cardinality({i \in DOMAIN input : IsJson(input[i])})
        /\ pc = "done" =>
              Len(output) = Cardinality({i \in DOMAIN input : IsJson(input[i])})

\* three lines, the second one invalid: two records and one warning
C2_Witness ==
    /\ script = "preprocess" /\ pc = "done"
    /\ input = <<JsonLine(GoodSample), MalformedLine, JsonLine(OtherSample)>>
    /\ Len(output) = 2
    /\ stderr = <<Message("json-ignored", 2, <<>>)>>

\* the futures whose result the drain loop has retrieved
Retrieved ==
    {i \in Finished : /\ pc \notin {"load", "submit"}
                      /\ i \notin ac_finished
                      /\ i \notin Range(ac_waiter)}

\* the task of future i failed
Failed(i) == fut_list[i].raised # ""

\* a failure dureader_segment.main is told to pass over (lines 183, 192)
PassedOver(i) ==
    /\ script = "segment"
    /\ \/ fut_list[i].raised = "HTTPError5xx" /\ args.ignore_5xx
       \/ fut_list[i].raised = "HTTPError4xx" /\ args.ignore_4xx

FailureRetrieved == \E i \in Retrieved : Failed(i)
FatalRetrieved == \E i \in Retrieved : Failed(i) /\ ~PassedOver(i)

\* C3: if a worker task fails, the failure surfaces when the orchestrator
\* retrieves that task's result, and it is fatal: from that point on no
\* further completed result is retrieved or written to the output stream,
\* and the records written before the failure are left unchanged.
C3_TaskFailureFatal ==
    /\ [](pc \in {"raise", "crashed"} <=> FailureRetrieved)
    /\ [][FailureRetrieved => (output' = output /\ Retrieved' = Retrieved)]_vars

\* C3 as the code has it: the same of every task failure but the HTTP 5xx
\* and 4xx errors that dureader_segment.main passes over while ignore_5xx
\* and ignore_4xx are set (their default); such a failure is logged and the
\* drain loop goes on.
C3_FatalFailure ==
    /\ [](pc \in {"raise", "crashed"} <=> FatalRetrieved)
    /\ [][FatalRetrieved => (output' = output /\ Retrieved' = Retrieved)]_vars

\* preprocess has crashed on a failed task after writing one record, and a
\* completed result is left that was never retrieved
C3_Witness ==
    /\ script = "preprocess" /\ pc = "crashed"
    /\ Len(output) = 1
    /\ \E i \in Finished : ~Failed(i) /\ i \notin Retrieved

\* C14: an external interrupt arriving during the drain loop stops further
\* result retrieval: after the interrupt no further record is written and
\* every record written before it is retained unchanged, and the
\* orchestrator ends without reporting a failure.
C14_Interrupt ==
    /\ [][(pc = "interrupted" \/ pc' = "interrupted")
            => (output' = output /\ Retrieved' = Retrieved)]_vars
    /\ [](pc # "aborted")
    /\ [][pc = "interrupted" => (pc' = "interrupted" \/ (pc' = "done" /\ stderr' = stderr))]_vars

\* the orchestrator has ended
Ended == pc \in {"done", "crashed", "aborted"}

\* the diagnostic stream holds a message that names the line of future i and
\* quotes its raw text
Reported(i) ==
    \E k \in DOMAIN stderr :
        /\ stderr[k].what # "json-ignored"
        /\ stderr[k].line_no = fut_list[i].line_no
        /\ stderr[k].text = <<input[fut_list[i].line_no]>>

\* every entry of the output stream is the record of a task that succeeded
OnlyRecords ==
    \A k \in DOMAIN output :
        \E i \in Finished :
            /\ ~Failed(i)
            /\ fut_list[i].line_no = output[k].line_no
            /\ fut_list[i].result = output[k].txt

\* C15: when a worker task fails, the orchestrator, before terminating,
\* writes to the diagnostic stream (never to the output stream) a message
\* that identifies the 1-based line number of the failing record and its raw
\* input text; the output stream contains only serialized records.
C15_FailureDiagnostics ==
    /\ OnlyRecords
    /\ Ended => \A i \in Retrieved : Failed(i) => Reported(i)

\* C18: after a fatal task failure has been retrieved, in-flight and
\* not-yet-started tasks are abandoned: no task that had not started at that
\* moment is executed afterwards, and the orchestrator's exit does not wait
\* for the remaining submitted tasks to run to completion.
C18_TasksAbandoned ==
    /\ [][FatalRetrieved => \A i \in Pending : fut_list'[i].state = "pending"]_vars
    /\ [](pc = "raise" => ENABLED Shutdown)

\* the record of future i as the output stream holds it
RecordOf(i) == [line_no |-> fut_list[i].line_no, txt |-> fut_list[i].result]

\* C19: the output stream is written only by the orchestrator, never by a
\* worker: every task is submitted before the first result is drained, each
\* record is written only after the orchestrator has retrieved that task's
\* completed result, writes happen one at a time in retrieval order, and in
\* every interleaving of workers each completed task's record is written at
\* most once.
C19_SingleWriter ==
    /\ [](Retrieved # {} \/ output # <<>> => pc \notin {"load", "submit"})
    /\ [](\A k \in DOMAIN output :
            \E i \in Retrieved : ~Failed(i) /\ output[k] = RecordOf(i))
    /\ [](\A j, k \in DOMAIN output : j # k => output[j].line_no # output[k].line_no)
    /\ [][pc \notin {"load", "submit"} => (Len(fut_list') = Len(fut_list))]_vars
    /\ [][output' # output =>
            (\E i \in Retrieved' \ Retrieved :
                /\ Retrieved' = Retrieved \cup {i}
                /\ fut_list' = fut_list
                /\ output' = Append(output, RecordOf(i)))]_vars

\* two workers, and the second record written before the first
C19_Witness ==
    /\ script = "preprocess" /\ pc = "done"
    /\ args.max_workers = 2
    /\ Len(output) = 2
    /\ output[1].line_no > output[2].line_no
    /\ output[1].txt # output[2].txt

\* no task has failed so far, and no interrupt has arrived
NoFailure == \A i \in Finished : ~Failed(i)
NoInterrupt == pc \notin {"interrupted", "aborted"}

\* main has returned, every submitted task has completed, and the record of
\* each has been written, in as many writes as tasks were submitted
AllWritten ==
    /\ pc = "done"
    /\ Finished = DOMAIN fut_list
    /\ Len(output) = Len(fut_list)
    /\ \A i \in DOMAIN fut_list : \E k \in DOMAIN output : output[k] = RecordOf(i)

\* C22: under fair scheduling of the workers and when no task fails and no
\* interrupt arrives, the orchestrator terminates for every pool size >= 1:
\* every submitted task eventually completes, its record is eventually
\* written, and the drain loop ends after exactly as many writes as tasks
\* were submitted.
C22_Termination ==
    /\ ([]NoFailure /\ []NoInterrupt) => <>AllWritten
    /\ [][(pc = "wait" /\ pc' = "exit" /\ NoFailure)
            => (Len(output) = Len(fut_list))]_vars

\* two tasks on a pool of one worker, both written, main returned
C22_Witness ==
    /\ script = "preprocess" /\ pc = "done"
    /\ args.max_workers = 1
    /\ Len(fut_list) = 2
    /\ AllWritten
    /\ stderr = <<>>

=============================================================================
